---- MODULE Spec2Model ----
(***************************************************************************)
(* Model of the SmarTest front end: the App component of                   *)
(* frontend/src/App.jsx (selection, question, answer, score and reference  *)
(* state with the handlers toggleProblem, onGenerate, onEvaluate and the   *)
(* textarea's onChange) and the three gateway functions of                 *)
(* frontend/src/api.js.                                                    *)
(*                                                                         *)
(* An async handler runs synchronously up to its first await; each await   *)
(* is a suspension point at which the remote service answers at a time of  *)
(* its choosing.  `chains` is the bag of suspended handler instances, each *)
(* with the request it waits for and the values of the render it closed    *)
(* over.                                                                   *)
(*                                                                         *)
(* History variables: `lastOp` names the handler step taken last,          *)
(* `answerFor` the id of the question on screen when the draft was typed,  *)
(* `before` the session values at the last click (kept under SpecSolo).    *)
(* `shown` is the missing-keywords paragraph of the last rendering of the  *)
(* score section (kept under SpecRender).                                  *)
(***************************************************************************)
EXTENDS Integers, Sequences, FiniteSets, Bags, TLC

VARIABLES selectedProblems, question, answer, score, refAnswers,
          chains, answerFor, lastOp, before, shown

vars == <<selectedProblems, question, answer, score, refAnswers,
          chains, answerFor, lastOp, before, shown>>

(***************************************************************************)
(* Bounds of the model.                                                    *)
(***************************************************************************)
\* number of distinct questions the remote service can hand out
NumQuestions == 2
\* longest whitespace-only answer draft the user types
MaxBlankLen == 1
\* most handler instances suspended at an await at the same time
MaxChains == 2
\* number of catalog checkboxes the user operates under Spec
MaxCheckbox == 1
\* most missing keywords in a score of the service
MaxKeywords == 17
\* number of times the clock passes a multiple of the seed's modulus
MaxLaps == 1

(***************************************************************************)
(* Values.                                                                 *)
(***************************************************************************)
\* App.jsx:5-10, the keys of the catalog
problems == <<"n_queens", "graph_coloring", "knights_tour", "generalized_hanoi">>

\* App.jsx:28, the modulus of the seed
SeedMod == 100000

\* App.jsx:96, a conditional paragraph that is not rendered
NothingShown == [t |-> "nothing"]

\* JavaScript's null and undefined
Null == [t |-> "null"]
Undefined == [t |-> "undefined"]

\* truthiness of an object-or-null value (App.jsx:33 !question, :62, :71, :87)
Truthy(v) == v # Null /\ v # Undefined

QuestionIds == 1..NumQuestions

\* a Question {id, text} of the remote service
Question(i) == [t |-> "question", id |-> i, text |-> i]

\* the sequences over S of length at most n
RECURSIVE SeqsUpTo(_, _)
SeqsUpTo(S, n) ==
  IF n = 0 THEN {<<>>}
  ELSE LET shorter == SeqsUpTo(S, n - 1)
       IN shorter \cup {Append(s, x) : s \in shorter, x \in S}

\* whitespace-only drafts, the empty one included
BlankDrafts == SeqsUpTo({" "}, MaxBlankLen)

\* a draft with text in it, typed after a leading whitespace
TextDrafts == {<<" ", "a">>}

\* the values the textarea takes (App.jsx:78)
Answers == BlankDrafts \cup TextDrafts

\* String.prototype.trim (App.jsx:33): drop leading and trailing whitespace
RECURSIVE trimStart(_)
trimStart(s) ==
  IF s = <<>> THEN <<>>
  ELSE IF Head(s) = " " THEN trimStart(Tail(s)) ELSE s

RECURSIVE trimEnd(_)
trimEnd(s) ==
  IF s = <<>> THEN <<>>
  ELSE IF s[Len(s)] = " " THEN trimEnd(SubSeq(s, 1, Len(s) - 1)) ELSE s

\* a trim that leaves whitespace in place
trimNothing(s) == s

trim(s) == trimEnd(trimStart(s))

\* Array.prototype.includes and the filter of App.jsx:20
includes(arr, key) == \E i \in 1..Len(arr) : arr[i] = key

filterOut(arr, key) == SelectSeq(arr, LAMBDA k : k # key)

\* an updater that appends the key whether or not it is selected
toggleProblemAppend(prev, key) == Append(prev, key)

\* App.jsx:20, the updater passed to setSelectedProblems
toggleProblem(prev, key) ==
  IF includes(prev, key) THEN filterOut(prev, key) ELSE Append(prev, key)

\* the session values of the current render
Session ==
  [question |-> question, answer |-> answer, score |-> score, refAnswers |-> refAnswers]

\* a handler instance suspends at an await; it resumes or its promise rejects
Suspend(cs, chain) == cs (+) SetToBag({chain})

Settle(cs, chain) == cs (-) SetToBag({chain})

\* the number of suspended handler instances waiting on a request of kind op
CountOp(cs, op) ==
  LET waiting == {c \in BagToSet(cs) : c.op = op}
  IN BagCardinality([c \in waiting |-> CopiesIn(c, cs)])

(***************************************************************************)
(* The remote service: what a fetch can come back with.                    *)
(***************************************************************************)
NetworkError == [kind |-> "network_error"]
HttpError == [kind |-> "http", ok |-> FALSE]
HttpOk(body) == [kind |-> "http", ok |-> TRUE, body |-> body]

Throw(msg) == [t |-> "throw", message |-> msg]
Return(v) == [t |-> "return", value |-> v]

\* POST /questions/generate -> {questions: [...]}; count is 1
GenerateBodies ==
  {[questions |-> <<>>]} \cup {[questions |-> <<Question(i)>>] : i \in QuestionIds}

\* POST /answers/evaluate -> a ScoreResult, tagged with the request it answers
EvaluateBody(req) ==
  [t |-> "score", question_id |-> req.question_id, answer_text |-> req.answer_text]

\* GET /questions/{id}/reference -> {reference_answers: [...]}, the field may be absent
ReferenceBodies(req) ==
  { [detail |-> "none"],
    [reference_answers |-> <<>>],
    [reference_answers |-> <<req.questionId>>] }

\* a body that is not JSON text
NotJson == [t |-> "not_json"]

Responses(bodies) == {NetworkError, HttpError} \cup {HttpOk(b) : b \in bodies \cup {NotJson}}

\* Response.json() (api.js:10, :16, :26): the parsed body, or a SyntaxError
json(body) ==
  IF body = NotJson THEN Throw("SyntaxError") ELSE Return(body)

\* api.js:3-11
generateQuestions(resp) ==
  IF resp.kind = "network_error" THEN Throw("fetch failed")
  ELSE IF ~resp.ok THEN Throw("Failed to generate questions")
  ELSE json(resp.body)

\* api.js:13-17
getReference(resp) ==
  IF resp.kind = "network_error" THEN Throw("fetch failed")
  ELSE IF ~resp.ok THEN Throw("Failed to get reference answers")
  ELSE json(resp.body)

\* api.js:19-27
evaluateAnswer(resp) ==
  IF resp.kind = "network_error" THEN Throw("fetch failed")
  ELSE IF ~resp.ok THEN Throw("Failed to evaluate answer")
  ELSE json(resp.body)

\* the readings of Date.now() the model draws from (App.jsx:28)
Times == {0, SeedMod}

(***************************************************************************)
(* Initial state: App.jsx:13-17.                                           *)
(***************************************************************************)
Init ==
  /\ selectedProblems = problems
  /\ question = Null
  /\ answer = <<>>
  /\ score = Null
  /\ refAnswers = <<>>
  /\ chains = EmptyBag
  /\ answerFor = 0
  /\ lastOp = "init"
  /\ before = [question |-> Null, answer |-> <<>>, score |-> Null, refAnswers |-> <<>>]
  /\ shown = NothingShown

(***************************************************************************)
(* Handlers.                                                               *)
(***************************************************************************)
\* the outstanding generate requests, re-addressed to the selection sel
RECURSIVE Reselect(_, _, _)
Reselect(todo, cs, sel) ==
  IF todo = {} THEN EmptyBag
  ELSE LET c == CHOOSE x \in todo : TRUE
           d == IF c.op = "generate" THEN [c EXCEPT !.req.allowed_problems = sel] ELSE c
       IN [x \in {d} |-> CopiesIn(c, cs)] (+) Reselect(todo \ {c}, cs, sel)

\* a toggle whose array is shared with the requests already sent
ToggleRewritesRequests(key) ==
  /\ selectedProblems' = toggleProblem(selectedProblems, key)
  /\ chains' = Reselect(BagToSet(chains), chains, toggleProblem(selectedProblems, key))
  /\ lastOp' = "toggle"
  /\ UNCHANGED <<question, answer, score, refAnswers, answerFor>>

\* App.jsx:19-21 (the checkbox of App.jsx:49-54)
Toggle(key) ==
  /\ selectedProblems' = toggleProblem(selectedProblems, key)
  /\ lastOp' = "toggle"
  /\ UNCHANGED <<question, answer, score, refAnswers, chains, answerFor>>

\* an onGenerate without the setScore(null) of App.jsx:26
GenerateKeepsScore(now) ==
  /\ BagCardinality(chains) < MaxChains
  /\ question' = Null
  /\ answer' = <<>>
  /\ answerFor' = 0
  /\ refAnswers' = <<>>
  /\ chains' = Suspend(chains,
       [op |-> "generate",
        req |-> [count |-> 1, allowed_problems |-> selectedProblems, seed |-> now % SeedMod],
        closure |-> [selectedProblems |-> selectedProblems]])
  /\ lastOp' = "generate"
  /\ UNCHANGED <<selectedProblems, score>>

\* an onGenerate that asks for every problem when none is selected
GenerateAllWhenEmpty(now) ==
  /\ BagCardinality(chains) < MaxChains
  /\ question' = Null
  /\ answer' = <<>>
  /\ answerFor' = 0
  /\ score' = Null
  /\ refAnswers' = <<>>
  /\ chains' = Suspend(chains,
       [op |-> "generate",
        req |-> [count |-> 1,
                 allowed_problems |-> IF selectedProblems = <<>> THEN Null ELSE selectedProblems,
                 seed |-> now % SeedMod],
        closure |-> [selectedProblems |-> selectedProblems]])
  /\ lastOp' = "generate"
  /\ UNCHANGED selectedProblems

\* App.jsx:23-28, up to the await
Generate(now) ==
  /\ BagCardinality(chains) < MaxChains
  /\ question' = Null
  /\ answer' = <<>>
  /\ answerFor' = 0
  /\ score' = Null
  /\ refAnswers' = <<>>
  /\ chains' = Suspend(chains,
       [op |-> "generate",
        req |-> [count |-> 1, allowed_problems |-> selectedProblems, seed |-> now % SeedMod],
        closure |-> [selectedProblems |-> selectedProblems]])
  /\ lastOp' = "generate"
  /\ UNCHANGED selectedProblems

\* App.jsx:28, generateQuestions threw: the handler's promise rejects
OnGenerateThrow(chain) ==
  /\ chains' = Settle(chains, chain)
  /\ lastOp' = "generateFail"
  /\ UNCHANGED <<selectedProblems, question, answer, score, refAnswers, answerFor>>

\* a continuation that drops its response while a later generate request waits
OnGenerateReturnIfLatest(chain, resp) ==
  /\ question' = (IF CountOp(chains, "generate") > 1 THEN question
                  ELSE IF Len(resp.questions) >= 1 THEN resp.questions[1] ELSE Undefined)
  /\ chains' = Settle(chains, chain)
  /\ lastOp' = "generateOk"
  /\ UNCHANGED <<selectedProblems, answer, score, refAnswers, answerFor>>

\* App.jsx:29
OnGenerateReturn(chain, resp) ==
  /\ question' = (IF Len(resp.questions) >= 1 THEN resp.questions[1] ELSE Undefined)
  /\ chains' = Settle(chains, chain)
  /\ lastOp' = "generateOk"
  /\ UNCHANGED <<selectedProblems, answer, score, refAnswers, answerFor>>

\* App.jsx:28-29, the continuation of onGenerate after the await
GenerateDeliver(chain, response) ==
  LET r == generateQuestions(response)
  IN IF r.t = "throw" THEN OnGenerateThrow(chain) ELSE OnGenerateReturn(chain, r.value)

GenerateResume ==
  \E chain \in BagToSet(chains) :
    /\ chain.op = "generate"
    /\ \E response \in Responses(GenerateBodies) : GenerateDeliver(chain, response)

\* App.jsx:78, onChange of the textarea, rendered only while a question is held (App.jsx:71)
TypeAnswer(text) ==
  /\ Truthy(question)
  /\ answer' = text
  /\ answerFor' = (IF text = <<>> THEN 0 ELSE question.id)
  /\ lastOp' = "type"
  /\ UNCHANGED <<selectedProblems, question, score, refAnswers, chains>>

\* App.jsx:32-34, up to the await.  The button is rendered only while a
\* question is held (App.jsx:71-83); the handler's own guard also covers a
\* call without one, and such a call is modelled too.
Evaluate ==
  /\ lastOp' = "evaluate"
  /\ IF ~Truthy(question) \/ trim(answer) = <<>>
     THEN UNCHANGED chains
     ELSE /\ BagCardinality(chains) < MaxChains
          /\ chains' = Suspend(chains,
               [op |-> "evaluate",
                req |-> [question_id |-> question.id, answer_text |-> answer],
                closure |-> [question |-> question, answer |-> answer]])
  /\ UNCHANGED <<selectedProblems, question, answer, score, refAnswers, answerFor>>

\* a failed evaluation that goes on to fetch the reference answers
OnEvaluateThrowThenFetch(chain) ==
  /\ chains' = Suspend(Settle(chains, chain),
       [op |-> "reference",
        req |-> [questionId |-> chain.closure.question.id],
        closure |-> chain.closure])
  /\ lastOp' = "evaluateFail"
  /\ UNCHANGED <<selectedProblems, question, answer, score, refAnswers, answerFor>>

\* a failed evaluation that drops the score of the earlier evaluation
OnEvaluateThrowClearsScore(chain) ==
  /\ score' = Null
  /\ chains' = Settle(chains, chain)
  /\ lastOp' = "evaluateFail"
  /\ UNCHANGED <<selectedProblems, question, answer, refAnswers, answerFor>>

\* App.jsx:34, evaluateAnswer threw
OnEvaluateThrow(chain) ==
  /\ chains' = Settle(chains, chain)
  /\ lastOp' = "evaluateFail"
  /\ UNCHANGED <<selectedProblems, question, answer, score, refAnswers, answerFor>>

\* a continuation that fetches the reference of the question held by now
OnEvaluateReturnHeldId(chain, res) ==
  /\ score' = res
  /\ chains' = Suspend(Settle(chains, chain),
       [op |-> "reference",
        req |-> [questionId |-> IF Truthy(question) THEN question.id ELSE 0],
        closure |-> chain.closure])
  /\ lastOp' = "evaluateOk"
  /\ UNCHANGED <<selectedProblems, question, answer, refAnswers, answerFor>>

\* App.jsx:35-36, up to the second await
OnEvaluateReturn(chain, res) ==
  /\ score' = res
  /\ chains' = Suspend(Settle(chains, chain),
       [op |-> "reference",
        req |-> [questionId |-> chain.closure.question.id],
        closure |-> chain.closure])
  /\ lastOp' = "evaluateOk"
  /\ UNCHANGED <<selectedProblems, question, answer, refAnswers, answerFor>>

\* App.jsx:34-36, the continuation of onEvaluate after the first await
EvaluateDeliver(chain, response) ==
  LET r == evaluateAnswer(response)
  IN IF r.t = "throw" THEN OnEvaluateThrow(chain) ELSE OnEvaluateReturn(chain, r.value)

EvaluateResume ==
  \E chain \in BagToSet(chains) :
    /\ chain.op = "evaluate"
    /\ \E response \in Responses({EvaluateBody(chain.req)}) : EvaluateDeliver(chain, response)

\* App.jsx:36, getReference threw
OnReferenceThrow(chain) ==
  /\ chains' = Settle(chains, chain)
  /\ lastOp' = "referenceFail"
  /\ UNCHANGED <<selectedProblems, question, answer, score, refAnswers, answerFor>>

\* App.jsx:37
OnReferenceReturn(chain, refs) ==
  /\ refAnswers' = (IF "reference_answers" \in DOMAIN refs THEN refs.reference_answers ELSE <<>>)
  /\ chains' = Settle(chains, chain)
  /\ lastOp' = "referenceOk"
  /\ UNCHANGED <<selectedProblems, question, answer, score, answerFor>>

\* App.jsx:36-37, the continuation of onEvaluate after the second await
ReferenceDeliver(chain, response) ==
  LET r == getReference(response)
  IN IF r.t = "throw" THEN OnReferenceThrow(chain) ELSE OnReferenceReturn(chain, r.value)

ReferenceResume ==
  \E chain \in BagToSet(chains) :
    /\ chain.op = "reference"
    /\ \E response \in Responses(ReferenceBodies(chain.req)) : ReferenceDeliver(chain, response)

(***************************************************************************)
(* The application: the user clicks, types and toggles, the remote service *)
(* answers.  Nothing disables a button while a request is outstanding      *)
(* (App.jsx:59, :82), so handler instances overlap.                        *)
(***************************************************************************)
ToggleCheckbox == \E n \in 1..MaxCheckbox : Toggle(problems[n])

ClickGenerate == \E now \in Times : Generate(now)

ChangeAnswer == \E text \in Answers : TypeAnswer(text)

Next ==
  \/ ToggleCheckbox /\ UNCHANGED <<before, shown>>
  \/ ClickGenerate /\ UNCHANGED <<before, shown>>
  \/ GenerateResume /\ UNCHANGED <<before, shown>>
  \/ ChangeAnswer /\ UNCHANGED <<before, shown>>
  \/ Evaluate /\ UNCHANGED <<before, shown>>
  \/ EvaluateResume /\ UNCHANGED <<before, shown>>
  \/ ReferenceResume /\ UNCHANGED <<before, shown>>

Spec == Init /\ [][Next]_vars

(***************************************************************************)
(* The same application driven by a user who waits for every action to     *)
(* finish before the next click or keystroke: no two handler instances     *)
(* overlap, and `before` holds the session values at the last click.       *)
(***************************************************************************)
Quiet == chains = EmptyBag

NextSolo ==
  \/ Quiet /\ ToggleCheckbox /\ UNCHANGED <<before, shown>>
  \/ Quiet /\ ClickGenerate /\ before' = Session /\ UNCHANGED shown
  \/ GenerateResume /\ UNCHANGED <<before, shown>>
  \/ Quiet /\ ChangeAnswer /\ UNCHANGED <<before, shown>>
  \/ Quiet /\ Evaluate /\ before' = Session /\ UNCHANGED shown
  \/ EvaluateResume /\ UNCHANGED <<before, shown>>
  \/ ReferenceResume /\ UNCHANGED <<before, shown>>

SpecSolo == Init /\ [][NextSolo]_vars

(***************************************************************************)
(* toggleProblem as a function of any selection and any key: the           *)
(* selection starts as any duplicate-free list over the catalog keys and   *)
(* one key outside the catalog, and every key may be toggled.              *)
(***************************************************************************)
OtherKey == "custom_problem"

AllKeys == {problems[n] : n \in 1..Len(problems)} \cup {OtherKey}

NoDuplicates(arr) == \A i, j \in 1..Len(arr) : arr[i] = arr[j] => i = j

KeysOf(arr) == {arr[i] : i \in 1..Len(arr)}

Selections == {arr \in SeqsUpTo(AllKeys, Cardinality(AllKeys)) : NoDuplicates(arr)}

InitToggle ==
  /\ selectedProblems \in Selections
  /\ question = Null
  /\ answer = <<>>
  /\ score = Null
  /\ refAnswers = <<>>
  /\ chains = EmptyBag
  /\ answerFor = 0
  /\ lastOp = "init"
  /\ before = [question |-> Null, answer |-> <<>>, score |-> Null, refAnswers |-> <<>>]
  /\ shown = NothingShown

ToggleAny == \E key \in AllKeys : Toggle(key) /\ UNCHANGED <<before, shown>>

SpecToggle == InitToggle /\ [][ToggleAny]_vars

(***************************************************************************)
(* The selection and the generate request: the user operates every         *)
(* checkbox of the catalog (App.jsx:47-57) and asks for questions, one     *)
(* request at a time.                                                      *)
(***************************************************************************)
ToggleCatalog == \E n \in 1..Len(problems) : Toggle(problems[n])

NextSelect ==
  \/ ToggleCatalog /\ UNCHANGED <<before, shown>>
  \/ Quiet /\ ClickGenerate /\ UNCHANGED <<before, shown>>
  \/ GenerateResume /\ UNCHANGED <<before, shown>>

SpecSelect == Init /\ [][NextSelect]_vars

(***************************************************************************)
(* The score section (App.jsx:87-101) as a function of the stored score:   *)
(* the score starts as any result of the service with at most MaxKeywords  *)
(* missing keywords, and the component renders it.                         *)
(***************************************************************************)
\* App.jsx:97, the number of missing keywords the paragraph lists
MaxShown == 15

Keyword(i) == "k" \o ToString(i)

AllKeywords == [i \in 1..MaxKeywords |-> Keyword(i)]

\* the runs of consecutive keywords, the empty one included
KeywordLists ==
  {<<>>} \cup {SubSeq(AllKeywords, from, to) : from \in 1..MaxKeywords, to \in 1..MaxKeywords}

\* POST /answers/evaluate -> {score, missing_keywords?, ...}
ScoreResult(mk) == [t |-> "score", score |-> 72, missing_keywords |-> mk]

RenderedScores ==
  {Null, [t |-> "score", score |-> 72]} \cup {ScoreResult(mk) : mk \in KeywordLists}

\* a slice that returns the whole array
sliceAll(arr, start, end) == arr

\* Array.prototype.slice(start, end), 0 <= start: a new array, the receiver is not changed
slice(arr, start, end) ==
  SubSeq(arr, start + 1, IF end < Len(arr) THEN end ELSE Len(arr))

\* Array.prototype.join, the text as the sequence of its pieces
RECURSIVE join(_, _)
join(arr, sep) ==
  IF arr = <<>> THEN <<>>
  ELSE IF Len(arr) = 1 THEN <<arr[1]>>
  ELSE <<arr[1], sep>> \o join(Tail(arr), sep)

\* App.jsx:87 and :96-98; undefined?.length > 0 is false
renderMissing(s) ==
  IF ~Truthy(s) THEN NothingShown
  ELSE IF "missing_keywords" \notin DOMAIN s THEN NothingShown
  ELSE IF ~(Len(s.missing_keywords) > 0) THEN NothingShown
  ELSE [t |-> "p",
        text |-> join(slice(s.missing_keywords, 0, MaxShown), ", ")
                   \o (IF Len(s.missing_keywords) > MaxShown THEN <<" ...">> ELSE <<>>)]

InitRender ==
  /\ selectedProblems = problems
  /\ question = Question(1)
  /\ answer = <<" ", "a">>
  /\ score \in RenderedScores
  /\ refAnswers = <<>>
  /\ chains = EmptyBag
  /\ answerFor = 1
  /\ lastOp = "init"
  /\ before = [question |-> Null, answer |-> <<>>, score |-> Null, refAnswers |-> <<>>]
  /\ shown = NothingShown

\* App.jsx:40-114, the rendering of the component
Render ==
  /\ shown' = renderMissing(score)
  /\ lastOp' = "render"
  /\ UNCHANGED <<selectedProblems, question, answer, score, refAnswers, chains, answerFor, before>>

SpecRender == InitRender /\ [][Render]_vars

(***************************************************************************)
(* The gateway against a service that may answer with any status and any   *)
(* body: the three functions of api.js read only res.ok and res.json().    *)
(* The user waits for every action to finish.                              *)
(***************************************************************************)
\* status codes of a response: success, client error, server error
Statuses == {200, 404, 500}

\* Response.ok is true for the statuses 200..299
HttpResponse(status, body) ==
  [kind |-> "http", status |-> status, ok |-> status \in 200..299, body |-> body]

\* JSON of another shape than the ScoreResult of POST /answers/evaluate
WrongShape == [detail |-> "unexpected"]

AnyResponses(bodies) ==
  {NetworkError} \cup {HttpResponse(status, b) : status \in Statuses, b \in bodies \cup {NotJson}}

FailedResponses ==
  {r \in AnyResponses({WrongShape}) : r.kind = "network_error" \/ r.status \notin 200..299}

GenerateAnswered ==
  \E chain \in BagToSet(chains) :
    /\ chain.op = "generate"
    /\ \E response \in AnyResponses(GenerateBodies) : GenerateDeliver(chain, response)

EvaluateAnswered ==
  \E chain \in BagToSet(chains) :
    /\ chain.op = "evaluate"
    /\ \E response \in AnyResponses({EvaluateBody(chain.req), WrongShape}) :
         EvaluateDeliver(chain, response)

ReferenceAnswered ==
  \E chain \in BagToSet(chains) :
    /\ chain.op = "reference"
    /\ \E response \in AnyResponses(ReferenceBodies(chain.req)) :
         ReferenceDeliver(chain, response)

NextGateway ==
  \/ Quiet /\ ToggleCheckbox /\ UNCHANGED <<before, shown>>
  \/ Quiet /\ ClickGenerate /\ UNCHANGED <<before, shown>>
  \/ GenerateAnswered /\ UNCHANGED <<before, shown>>
  \/ Quiet /\ ChangeAnswer /\ UNCHANGED <<before, shown>>
  \/ Quiet /\ Evaluate /\ UNCHANGED <<before, shown>>
  \/ EvaluateAnswered /\ UNCHANGED <<before, shown>>
  \/ ReferenceAnswered /\ UNCHANGED <<before, shown>>

SpecGateway == Init /\ [][NextGateway]_vars

(***************************************************************************)
(* The application with a service that answers every request, and answers  *)
(* it successfully: each continuation is taken once its request is         *)
(* outstanding (weak fairness).  Generate is clicked only while nothing is *)
(* outstanding; Evaluate may be clicked at any time (App.jsx:82), with a   *)
(* draft that may have been edited since the last click.                   *)
(***************************************************************************)
\* a second draft with text in it
EditedDraft == <<"b">>

ChangeAnswerAny == \E text \in Answers \cup {EditedDraft} : TypeAnswer(text)

GenerateSucceeds ==
  \E chain \in BagToSet(chains) :
    /\ chain.op = "generate"
    /\ \E body \in GenerateBodies : GenerateDeliver(chain, HttpOk(body))

EvaluateSucceeds ==
  \E chain \in BagToSet(chains) :
    /\ chain.op = "evaluate"
    /\ EvaluateDeliver(chain, HttpOk(EvaluateBody(chain.req)))

ReferenceSucceeds ==
  \E chain \in BagToSet(chains) :
    /\ chain.op = "reference"
    /\ \E body \in ReferenceBodies(chain.req) : ReferenceDeliver(chain, HttpOk(body))

NextLive ==
  \/ Quiet /\ ClickGenerate /\ UNCHANGED <<before, shown>>
  \/ GenerateSucceeds /\ UNCHANGED <<before, shown>>
  \/ ChangeAnswerAny /\ UNCHANGED <<before, shown>>
  \/ Evaluate /\ UNCHANGED <<before, shown>>
  \/ EvaluateSucceeds /\ UNCHANGED <<before, shown>>
  \/ ReferenceSucceeds /\ UNCHANGED <<before, shown>>

SpecLive ==
  /\ Init
  /\ [][NextLive]_vars
  /\ WF_vars(GenerateSucceeds /\ UNCHANGED <<before, shown>>)
  /\ WF_vars(EvaluateSucceeds /\ UNCHANGED <<before, shown>>)
  /\ WF_vars(ReferenceSucceeds /\ UNCHANGED <<before, shown>>)

(***************************************************************************)
(* The seed of the generate request (App.jsx:28): generate is clicked at   *)
(* clock readings just before and after the points where the seed wraps    *)
(* around, with requests of earlier clicks possibly still outstanding.     *)
(***************************************************************************)
\* readings of Date.now(), in milliseconds
ClockReadings ==
  {lap * SeedMod + ms : lap \in 0..MaxLaps, ms \in {0, 1, SeedMod - 1}}

ClickGenerateAt == \E now \in ClockReadings : Generate(now)

NextSeed ==
  \/ ToggleCheckbox /\ UNCHANGED <<before, shown>>
  \/ ClickGenerateAt /\ UNCHANGED <<before, shown>>
  \/ GenerateResume /\ UNCHANGED <<before, shown>>

SpecSeed == Init /\ [][NextSeed]_vars

(***************************************************************************)
(* Properties.                                                             *)
(***************************************************************************)
\* a session as the user sees it: null and undefined both show no question
Observed(s) == [s EXCEPT !.question = IF Truthy(@) THEN @ ELSE Null]

AllWhitespace(s) == \A i \in 1..Len(s) : s[i] = " "

\* the keywords of a rendered paragraph, without separators and marker
ShownKeywords(text) == SelectSeq(text, LAMBDA piece : piece \notin {", ", " ..."})

\* C1: right after onGenerate has run up to its await, the answer draft is
\* empty, no score is stored, the reference answers are empty and the
\* generate request of that call is outstanding, whatever the state before.
GenerateClearsBeforeRequest ==
  lastOp = "generate" =>
    /\ answer = <<>>
    /\ score = Null
    /\ refAnswers = <<>>
    /\ \E chain \in BagToSet(chains) :
         chain.op = "generate" /\ chain.req.allowed_problems = selectedProblems

\* C1 witness: generate was clicked while the reference fetch of an
\* evaluation was still outstanding, and the session is cleared.
GenerateClearedWitness ==
  /\ lastOp = "generate"
  /\ CountOp(chains, "reference") = 1
  /\ CountOp(chains, "generate") = 1
  /\ answer = <<>> /\ score = Null /\ refAnswers = <<>>

\* C2: a stored score implies that a question is held and that the score
\* answers an evaluate request for the held question's id.
ScoreHasItsQuestion ==
  score # Null => (Truthy(question) /\ score.question_id = question.id)

\* C3: while a question is held, the answer draft is empty or was typed
\* while a question with the same id was on screen.
NoStaleAnswer ==
  Truthy(question) => (answer = <<>> \/ answerFor = question.id)

\* C4: onEvaluate invoked with no question held, or with an empty or
\* all-whitespace draft, issues no request and changes neither the session
\* values nor the selection.
EvaluateSkipsBlank ==
  [][(lastOp' = "evaluate" /\ (~Truthy(question) \/ AllWhitespace(answer)))
       => UNCHANGED <<question, answer, score, refAnswers, selectedProblems, chains>>]_vars

\* C4 witness: evaluate was clicked on a held question with a draft of
\* whitespace only, and no request is outstanding.
EvaluateSkippedWitness ==
  /\ lastOp = "evaluate"
  /\ Truthy(question)
  /\ answer # <<>> /\ AllWhitespace(answer)
  /\ chains = EmptyBag

\* C5: a step issues a fetch-reference request only as the continuation of
\* an evaluate call whose response was successful: the chain that waited
\* for the evaluate response now waits for the reference of the same
\* question, the response has just been stored as the score, and no other
\* chain changed.
ReferenceOnlyAfterEvaluate ==
  [][CountOp(chains', "reference") > CountOp(chains, "reference")
       => /\ lastOp' = "evaluateOk"
          /\ \E was \in BagToSet(chains), now \in BagToSet(chains') :
               /\ was.op = "evaluate"
               /\ now.op = "reference"
               /\ now.req.questionId = was.req.question_id
               /\ score' = EvaluateBody(was.req)
               /\ chains' = Suspend(Settle(chains, was), now)]_vars

\* C5 witness: an evaluate response was stored and the reference fetch of
\* the same chain is outstanding.
ReferenceIssuedWitness ==
  /\ lastOp = "evaluateOk"
  /\ score # Null
  /\ \E chain \in BagToSet(chains) :
       chain.op = "reference" /\ chain.req.questionId = score.question_id

\* C6: neither the invocation of onEvaluate nor the failure of its evaluate
\* request changes question, answer, score or reference answers, and the
\* failure ends the chain without issuing a fetch-reference request.
EvaluateFailureLeavesState ==
  [][/\ lastOp' \in {"evaluate", "evaluateFail"}
          => UNCHANGED <<question, answer, score, refAnswers>>
     /\ lastOp' = "evaluateFail"
          => /\ BagCardinality(chains') = BagCardinality(chains) - 1
             /\ CountOp(chains', "reference") = CountOp(chains, "reference")
             /\ CountOp(chains', "evaluate") = CountOp(chains, "evaluate") - 1]_vars

\* C6 witness: an evaluate request failed while the score and references of
\* an earlier evaluation of the held question are still stored.
EvaluateFailedWitness ==
  /\ lastOp = "evaluateFail"
  /\ Truthy(question)
  /\ score # Null /\ score.question_id = question.id
  /\ refAnswers # <<>>
  /\ chains = EmptyBag

\* C7: after the generate request of a generate action has failed, question,
\* answer, score and reference answers equal their values before the click.
GenerateFailureKeepsState ==
  lastOp = "generateFail" => Observed(Session) = Observed(before)

\* C8: after the evaluate request of an evaluate action has succeeded and
\* its fetch-reference request has failed, question, answer, score and
\* reference answers equal their values before the click.
ReferenceFailureKeepsState ==
  lastOp = "referenceFail" => Observed(Session) = Observed(before)

\* C9: for every selection S and key k, toggleProblem(S, k) flips the
\* membership of k and of no other key, keeps the list free of duplicates,
\* and toggling k twice gives back the keys of S.
ToggleInvolution ==
  \A k \in AllKeys :
    LET S == selectedProblems
        T == toggleProblem(S, k)
        U == toggleProblem(T, k)
    IN /\ (k \in KeysOf(T)) = (k \notin KeysOf(S))
       /\ KeysOf(T) \ {k} = KeysOf(S) \ {k}
       /\ NoDuplicates(T)
       /\ KeysOf(U) = KeysOf(S)
       /\ NoDuplicates(U)

\* C9 witness: a key outside the catalog has just been toggled in, and
\* toggling the first key twice gives the same keys in another order.
ToggleWitness ==
  /\ lastOp = "toggle"
  /\ Len(selectedProblems) >= 2
  /\ selectedProblems[Len(selectedProblems)] = OtherKey
  /\ toggleProblem(toggleProblem(selectedProblems, selectedProblems[1]), selectedProblems[1])
       # selectedProblems

\* C10: a step of toggleProblem changes neither question, answer, score and
\* reference answers nor any outstanding request.
ToggleFrame ==
  [][lastOp' = "toggle"
       => UNCHANGED <<question, answer, score, refAnswers, chains>>]_vars

\* C10 witness: a checkbox was toggled while a score was stored and a generate
\* request and a reference fetch were outstanding.
ToggleInFlightWitness ==
  /\ lastOp = "toggle"
  /\ selectedProblems # problems
  /\ \E chain \in BagToSet(chains) :
       chain.op = "generate" /\ chain.req.allowed_problems # selectedProblems
  /\ CountOp(chains, "reference") = 1
  /\ score # Null

\* C11: whatever the selection, the empty one included, onGenerate can be
\* invoked, and every invocation adds exactly one generate request, with
\* count 1 and with allowed_problems the selection of that moment as a
\* sequence (the empty sequence when nothing is selected).
GenerateSendsSelection ==
  /\ [](Quiet => ENABLED (ClickGenerate /\ UNCHANGED <<before, shown>>))
  /\ [][lastOp' = "generate"
          => /\ BagCardinality(chains') = BagCardinality(chains) + 1
             /\ \E chain \in BagToSet(chains') :
                  /\ chains' = Suspend(chains, chain)
                  /\ chain.op = "generate"
                  /\ chain.req.count = 1
                  /\ chain.req.allowed_problems = selectedProblems
                  /\ chain.req.allowed_problems \in Seq(KeysOf(problems))]_vars

\* C11 witness: every checkbox is off, generate was clicked and its request
\* is outstanding with an empty allowed_problems.
EmptySelectionSentWitness ==
  /\ lastOp = "generate"
  /\ selectedProblems = <<>>
  /\ \E chain \in BagToSet(chains) :
       chain.op = "generate" /\ chain.req.count = 1 /\ chain.req.allowed_problems = <<>>

\* C12: once the generate request of a generate action has returned
\* successfully with no other request outstanding, a question is held, it is
\* one the service returned, the answer draft is empty, no score is stored
\* and the reference answers are empty.
GenerateSuccessAsks ==
  (lastOp = "generateOk" /\ Quiet)
    => /\ Truthy(question)
       /\ \E body \in GenerateBodies :
            Len(body.questions) >= 1 /\ question = body.questions[1]
       /\ answer = <<>>
       /\ score = Null
       /\ refAnswers = <<>>

OneEvaluateChain ==
  CountOp(chains, "evaluate") + CountOp(chains, "reference") <= 1

\* C15: rendering a stored score with n missing keywords shows nothing when
\* n = 0 and otherwise the first min(n, 15) keywords in order, separated by
\* ", ", followed by the marker " ..." exactly when n > 15; the stored score
\* keeps all n keywords.
MissingKeywordsShown ==
  [][(lastOp' = "render" /\ Truthy(score) /\ "missing_keywords" \in DOMAIN score)
       => LET mk == score.missing_keywords
              n == Len(mk)
              m == IF n < 15 THEN n ELSE 15
          IN /\ score' = score
             /\ (n = 0) => (shown' = NothingShown)
             /\ (n > 0) =>
                  /\ shown' # NothingShown
                  /\ ShownKeywords(shown'.text) = SubSeq(mk, 1, m)
                  /\ Len(shown'.text) = 2 * m - 1 + (IF n > 15 THEN 1 ELSE 0)
                  /\ (shown'.text[Len(shown'.text)] = " ...") <=> (n > 15)]_vars

\* C15 witness: a score with 17 missing keywords has been rendered with 15
\* of them and the marker.
TruncatedWitness ==
  /\ lastOp = "render"
  /\ Truthy(score)
  /\ "missing_keywords" \in DOMAIN score
  /\ Len(score.missing_keywords) = 17
  /\ shown # NothingShown
  /\ Len(ShownKeywords(shown.text)) = 15
  /\ shown.text[Len(shown.text)] = " ..."

\* C16: each of the three gateway functions throws, and so hands no body to
\* its caller, for a network failure and for every response with a status
\* outside 200..299; and a stored score is always a ScoreResult that the
\* evaluate call returned, never the body of a malformed response.
ScoreOnlyFromWellFormedBody ==
  /\ \A r \in FailedResponses :
       /\ generateQuestions(r).t = "throw"
       /\ evaluateAnswer(r).t = "throw"
       /\ getReference(r).t = "throw"
  /\ score # Null => ("t" \in DOMAIN score /\ score.t = "score")

\* C17: non-empty reference answers imply that a score is stored, that a
\* question is held and that the reference answers were fetched for the id
\* of the held question.
ReferencesHaveScoreAndQuestion ==
  refAnswers # <<>>
    => /\ score # Null
       /\ Truthy(question)
       /\ refAnswers = <<question.id>>

\* C18: an onEvaluate call sends its evaluate request with the id of the
\* question held at the click, and when its evaluate response arrives it
\* sends its fetch-reference request with that same id, whatever question is
\* held by then.
ReferenceForEvaluatedQuestion ==
  [][/\ (lastOp' = "evaluate" /\ chains' # chains)
          => \E new \in BagToSet(chains') :
               /\ chains' = Suspend(chains, new)
               /\ new.op = "evaluate"
               /\ new.req.question_id = question.id
               /\ new.closure.question = question
     /\ lastOp' = "evaluateOk"
          => \E was \in BagToSet(chains), now \in BagToSet(chains') :
               /\ chains' = Suspend(Settle(chains, was), now)
               /\ was.op = "evaluate"
               /\ now.op = "reference"
               /\ now.closure = was.closure
               /\ now.req.questionId = was.closure.question.id
               /\ now.req.questionId = was.req.question_id]_vars

\* C18 witness: the evaluate response of a call made for question 1 has
\* arrived after a generate call replaced the question by question 2, and
\* the reference fetch for question 1 is outstanding.
ReferenceAfterReplaceWitness ==
  /\ lastOp = "evaluateOk"
  /\ question = Question(2)
  /\ score # Null /\ score.question_id = 1
  /\ \E chain \in BagToSet(chains) :
       chain.op = "reference" /\ chain.req.questionId = 1

\* the evaluate requests of drafts with text in them
EvaluateRequests ==
  {[question_id |-> i, answer_text |-> text] : i \in QuestionIds, text \in TextDrafts \cup {EditedDraft}}

\* C19: with a service that answers every request successfully and no
\* generate call in between, every onEvaluate call that sent a request
\* leads to a state with nothing outstanding in which the question is held,
\* the score is the response to that request and the reference answers are
\* those fetched for the question (none if the response has none); and the
\* reference response that leaves nothing outstanding ends its call in that
\* state.
EvaluateLeadsToScored ==
  /\ \A req \in EvaluateRequests :
       (\E chain \in BagToSet(chains) : chain.op = "evaluate" /\ chain.req = req)
         ~> (/\ Quiet
             /\ Truthy(question) /\ question.id = req.question_id
             /\ score = EvaluateBody(req)
             /\ refAnswers \in {<<>>, <<req.question_id>>})
  /\ [][(lastOp' = "referenceOk" /\ chains' = EmptyBag)
          => \E was \in BagToSet(chains) :
               /\ was.op = "reference"
               /\ question' = was.closure.question
               /\ score' = EvaluateBody([question_id |-> was.closure.question.id,
                                         answer_text |-> was.closure.answer])
               /\ refAnswers' \in {<<>>, <<was.req.questionId>>}]_vars

\* C20: the seed of every generate request is an integer with
\* 0 <= seed < 100000, and no two generate calls whose requests are
\* outstanding together carry the same seed.
SeedFreshInRange ==
  \A c \in BagToSet(chains) :
    c.op = "generate"
      => /\ c.req.seed \in 0..(100000 - 1)
         /\ CopiesIn(c, chains) = 1
         /\ \A d \in BagToSet(chains) :
              (d.op = "generate" /\ d # c) => d.req.seed # c.req.seed

====
